---- MODULE Spec2Model ----
(***************************************************************************)
(* A model of organize_mihon_images.py: the chaptering of a Collection's   *)
(* images, the collision resolution, the backup, the copy and the pruning  *)
(* of empty directories, over an explicit filesystem.                      *)
(*                                                                         *)
(* A name is a sequence of one-character strings; a path is a sequence of  *)
(* names, relative to the source root.  A file is a record [path, id]:     *)
(* id is the identity of its content, kept by a move and by a copy.        *)
(***************************************************************************)
EXTENDS Integers, Sequences, FiniteSets, TLC

\* ---------------------------------------------------------------- bounds
\* the most files the starting filesystem holds
MaxFiles == 3
\* the most runs of the program in one behaviour
MaxRuns == 2
\* the largest --images-per-chapter that is tried
MaxGroupSize == 2
\* the most paths on which the operating system refuses move, copy and rmdir
MaxDenied == 1
\* the most items of the chapter loop taken on its own (SpecChapters)
MaxItems == 8
\* the largest group size of the chapter loop taken on its own
MaxChunk == 4

\* ------------------------------------------------------------ characters
\* images_per_chapter when --images-per-chapter is not given (a given value is >= 1)
None == 0

\* code points of the characters the model's names are made of
CharCode(c) ==
  CASE c = " " -> 32 [] c = "." -> 46
    [] c = "0" -> 48 [] c = "1" -> 49 [] c = "2" -> 50 [] c = "3" -> 51
    [] c = "4" -> 52 [] c = "5" -> 53 [] c = "6" -> 54 [] c = "7" -> 55
    [] c = "8" -> 56 [] c = "9" -> 57
    [] c = ":" -> 58 [] c = "?" -> 63
    [] c = "B" -> 66 [] c = "C" -> 67 [] c = "G" -> 71 [] c = "J" -> 74
    [] c = "M" -> 77 [] c = "O" -> 79 [] c = "P" -> 80
    [] c = "_" -> 95
    [] c = "a" -> 97 [] c = "b" -> 98 [] c = "c" -> 99 [] c = "d" -> 100
    [] c = "e" -> 101 [] c = "g" -> 103 [] c = "h" -> 104 [] c = "i" -> 105
    [] c = "j" -> 106 [] c = "k" -> 107 [] c = "n" -> 110 [] c = "o" -> 111
    [] c = "p" -> 112 [] c = "r" -> 114 [] c = "t" -> 116 [] c = "u" -> 117
    [] c = "w" -> 119 [] c = "x" -> 120 [] c = "y" -> 121 [] c = "z" -> 122

\* str.lower() on one character
Lower(c) ==
  CASE c = "B" -> "b" [] c = "C" -> "c" [] c = "G" -> "g" [] c = "J" -> "j"
    [] c = "M" -> "m" [] c = "O" -> "o" [] c = "P" -> "p"
    [] OTHER -> c

Digit(d) == <<"0", "1", "2", "3", "4", "5", "6", "7", "8", "9">>[d + 1]

\* str(n) for n >= 0
RECURSIVE ToDigits(_)
ToDigits(n) == IF n < 10 THEN <<Digit(n)>> ELSE ToDigits(n \div 10) \o <<Digit(n % 10)>>

\* ----------------------------------------------------- get_safe_folder_name
invalid_chars == {"<", ">", ":", "\"", "/", "\\", "|", "?", "*"}

StripChars == {" ", "."}

RECURSIVE LStrip(_)
LStrip(s) == IF s # <<>> /\ Head(s) \in StripChars THEN LStrip(Tail(s)) ELSE s

RECURSIVE RStrip(_)
RStrip(s) ==
  IF s # <<>> /\ s[Len(s)] \in StripChars THEN RStrip(SubSeq(s, 1, Len(s) - 1)) ELSE s

MaxNameLen == 100

get_safe_folder_name(name) ==
  LET replaced == [i \in 1..Len(name) |->
                     IF name[i] \in invalid_chars THEN "_" ELSE name[i]]
      safe_name == RStrip(LStrip(replaced))
  IN  IF Len(safe_name) > MaxNameLen THEN SubSeq(safe_name, 1, MaxNameLen) ELSE safe_name

\* ------------------------------------------------------------------ paths
\* Path.name and Path.parent
BaseName(p) == p[Len(p)]
Parent(p) == SubSeq(p, 1, Len(p) - 1)

\* d is a proper ancestor of p
Under(d, p) == Len(d) < Len(p) /\ SubSeq(p, 1, Len(d)) = d

\* the index of the last "." of a name, 0 when it has none (str.rfind + 1)
RECURSIVE RFindDot(_, _)
RFindDot(name, i) ==
  IF i = 0 THEN 0 ELSE IF name[i] = "." THEN i ELSE RFindDot(name, i - 1)

\* Path.suffix and Path.stem: the name is split at its last dot, unless
\* that dot is its first or its last character
HasSuffix(name) ==
  LET i == RFindDot(name, Len(name)) IN 1 < i /\ i < Len(name)

Suffix(name) ==
  IF HasSuffix(name) THEN SubSeq(name, RFindDot(name, Len(name)), Len(name)) ELSE <<>>

Stem(name) ==
  IF HasSuffix(name) THEN SubSeq(name, 1, RFindDot(name, Len(name)) - 1) ELSE name

image_extensions ==
  { <<".", "j", "p", "g">>, <<".", "j", "p", "e", "g">>, <<".", "p", "n", "g">>,
    <<".", "g", "i", "f">>, <<".", "b", "m", "p">>, <<".", "w", "e", "b", "p">>,
    <<".", "t", "i", "f", "f">>, <<".", "t", "i", "f">> }

IsImage(name) ==
  LET sfx == Suffix(name) IN [i \in 1..Len(sfx) |-> Lower(sfx[i])] \in image_extensions

\* -------------------------------------------------------- format_chapter_name
ChapterWord == <<"C", "h", "a", "p", "t", "e", "r", " ">>

\* f"{n:03d}": the digits, padded with zeros to three at least
Pad3(n) ==
  LET ds == ToDigits(n)
  IN  IF Len(ds) >= 3 THEN ds ELSE [i \in 1..(3 - Len(ds)) |-> "0"] \o ds

format_chapter_name(chapter_number) == ChapterWord \o Pad3(chapter_number)

\* ------------------------------------------------------------ sorted(key=name)
\* Python's order on str: by code point, a proper prefix first
RECURSIVE StrLess(_, _)
StrLess(a, b) ==
  IF b = <<>> THEN FALSE
  ELSE IF a = <<>> THEN TRUE
  ELSE IF CharCode(Head(a)) # CharCode(Head(b)) THEN CharCode(Head(a)) < CharCode(Head(b))
  ELSE StrLess(Tail(a), Tail(b))

\* ------------------------------------------------------------- filesystem
VARIABLES
  files,              \* the files: a set of [path, id]
  dirs,               \* the directories: a set of paths
  denied,             \* what the operating system refuses: a set of <<path, op>>
  runs,               \* the runs of the program started so far
  status,             \* "none", "running", "complete", or the call that raised
  pc,                 \* the place in the code of the run in progress
  dry_run, in_place, images_per_chapter,       \* the arguments of the run
  manga_directories,  \* the Collections, in the order of the listing
  manga_idx,          \* the index of the Collection in progress
  image_files,        \* the sorted images of the Collection in progress
  target_path,        \* where the Collection in progress is organized
  backup_created,     \* whether line 177 copied the Collection in progress
  per_chapter,        \* images_per_chapter inside organize_images_into_chapters
  total_chapters, chapter_num,
  img_idx,            \* the index in image_files of the image in progress
  groups,             \* the chapters printed so far: a sequence of [name, first, last]
  empty_dirs,         \* remove_empty_directories: the directories of the last scan
  report,             \* what the run printed: per Collection, images and chapters
  startFiles, startDirs,   \* the filesystem when the run began
  prev                \* the arguments, the end and the report of the run before

vars ==
  << files, dirs, denied, runs, status, pc, dry_run, in_place, images_per_chapter,
     manga_directories, manga_idx, image_files, target_path, backup_created,
     per_chapter, total_chapters, chapter_num, img_idx, groups, empty_dirs, report,
     startFiles, startDirs, prev >>

Paths(fs) == {f.path : f \in fs}

\* Path.exists() and Path.is_dir(), against the filesystem (fs, ds)
ExistsIn(fs, ds, p) == p \in ds \/ p \in Paths(fs)
Exists(p) == ExistsIn(files, dirs, p)

IdOf(fs, p) == (CHOOSE f \in fs : f.path = p).id

\* Path / name; joining the empty name gives the path itself
Join(p, name) == IF name = <<>> THEN p ELSE Append(p, name)

\* the path of p, which is under from, moved under to
Rebase(from, to, p) == to \o SubSeq(p, Len(from) + 1, Len(p))

Refused(p, op) == <<p, op>> \in denied

\* os.rename / shutil.move of a file: what is at dst is replaced
MoveFile(fs, src, dst) ==
  {f \in fs : f.path # src /\ f.path # dst} \cup {[path |-> dst, id |-> IdOf(fs, src)]}

\* shutil.copy2
CopyFile(fs, src, dst) ==
  {f \in fs : f.path # dst} \cup {[path |-> dst, id |-> IdOf(fs, src)]}

\* every prefix of p, p included: mkdir(parents=True, exist_ok=True)
MkdirP(ds, p) == ds \cup {SubSeq(p, 1, n) : n \in 1..Len(p)}

Organized_Mihon ==
  <<"O", "r", "g", "a", "n", "i", "z", "e", "d", "_", "M", "i", "h", "o", "n">>
Backup == <<"_", "B", "a", "c", "k", "u", "p">>

\* -------------------------------------------------------------- enumeration
RECURSIVE Perms(_)
Perms(S) ==
  IF S = {} THEN {<<>>}
  ELSE UNION {{<<x>> \o p : p \in Perms(S \ {x})} : x \in S}

\* lines 41-43: the image files under path
ImagesUnder(path) == {p \in Paths(files) : Under(path, p) /\ IsImage(BaseName(p))}

\* Path.rglob('*') gives a directory's own files before the files of the
\* directories under it, and sibling directories in the order of the
\* operating system's listing, which is any order: p can come before q in
\* the walk unless q lies in a directory above p's
WalkBefore(p, q) == ~Under(Parent(q), Parent(p))

\* the paths of S that sorted(key=name) can put first: those of the least
\* name and, sorted being stable, among them those the walk can give first
Firsts(S) ==
  {p \in S : /\ \A q \in S : ~StrLess(BaseName(q), BaseName(p))
             /\ \A q \in S : BaseName(q) = BaseName(p) => WalkBefore(p, q)}

\* sorted(images, key=lambda x: x.name) over every walk: the paths by base
\* name, equal names in the order of the walk
RECURSIVE SortedWalks(_)
SortedWalks(S) ==
  IF S = {} THEN {<<>>}
  ELSE UNION {{<<p>> \o w : w \in SortedWalks(S \ {p})} : p \in Firsts(S)}

\* get_image_files: every list the function can return
get_image_files(path) == SortedWalks(ImagesUnder(path))

\* lines 141-142: the immediate subdirectories but the two reserved names,
\* in the order of the listing
MangaDirs == {d \in dirs : Len(d) = 1 /\ d[1] \notin {Organized_Mihon, Backup}}

\* ------------------------------------------------------ collision resolution
\* lines 88-95 and 193-200: the loop while dest_path.exists()
RECURSIVE ResolveLoop(_, _, _, _)
ResolveLoop(dir, original_name, dest_path, counter) ==
  IF Exists(dest_path)
  THEN ResolveLoop(dir, original_name,
                   Join(dir, Stem(original_name) \o <<"_">> \o ToDigits(counter)
                             \o Suffix(original_name)),
                   counter + 1)
  ELSE dest_path

\* a resolution without the loop: the desired path, whether it exists or not
ResolveDestUnchecked(dir, name) == Join(dir, name)

ResolveDest(dir, name) == ResolveLoop(dir, name, Join(dir, name), 1)

\* ----------------------------------------------------------------- chapters
\* the quotient rounded down instead of up
TotalChaptersFloor(total_images, per) == total_images \div per

\* math.ceil(total_images / images_per_chapter), per >= 1
TotalChapters(total_images, per) == (total_images + per - 1) \div per

StartIndex(num, per) == (num - 1) * per

Min(a, b) == IF a < b THEN a ELSE b

EndIndex(start_index, per, total_images) == Min(start_index + per, total_images)

\* ------------------------------------------------------------ starting states
Jpg == <<".", "j", "p", "g">>
T1 == <<"t", ":">>
T2 == <<"t", "?">>

\* the files a starting filesystem is drawn from: two Collections whose
\* names sanitize to the same title, images of the same name in sibling
\* directories, an image two directories down, and a file that is no image
CandidateFiles ==
  { [path |-> <<T1, <<"x">>, <<"a">> \o Jpg>>, id |-> 2],
    [path |-> <<T1, <<"y">>, <<"a">> \o Jpg>>, id |-> 3],
    [path |-> <<T1, <<"x">>, <<"w">>, <<"b">> \o Jpg>>, id |-> 4],
    [path |-> <<T1, <<"x">>, <<"n", ".", "t", "x", "t">>>>, id |-> 5],
    [path |-> <<T2, <<"a">> \o Jpg>>, id |-> 6] }

\* what earlier runs can have left: an image in the target of copy mode, a
\* file in the backup of the Collection, an image already in a chapter
LeftoverFiles ==
  { [path |-> <<Organized_Mihon, <<"t", "_">>, <<"a">> \o Jpg>>, id |-> 7],
    [path |-> <<Backup, <<"t", "_">>, <<"a">> \o Jpg>>, id |-> 8],
    [path |-> <<T1, ChapterWord \o <<"0", "0", "1">>, <<"a">> \o Jpg>>, id |-> 9] }

\* the directories a set of files lies in
DirsOf(fs) == UNION {MkdirP({}, Parent(f.path)) : f \in fs}

\* what the operating system can refuse, of what the program asks for: to
\* read a file of a Collection, to move an image, to remove a directory
\* inside a Collection
Refusals(fs, ds) ==
  LET InCollection(p) == p[1] \notin {Organized_Mihon, Backup}
  IN  ({p \in Paths(fs) : InCollection(p)} \X {"read"})
        \cup ({p \in Paths(fs) : p[1] # Backup /\ IsImage(BaseName(p))} \X {"write"})
        \cup ({d \in ds : Len(d) > 1 /\ InCollection(d)} \X {"write"})

NoRun ==
  [dry_run |-> FALSE, in_place |-> FALSE, images_per_chapter |-> None,
   status |-> "none", report |-> {}]

\* the variables of a run that is not inside a Collection
LocalsIdle ==
  /\ image_files = <<>>
  /\ target_path = <<>>
  /\ backup_created = FALSE
  /\ per_chapter = 0
  /\ total_chapters = 0
  /\ chapter_num = 0
  /\ img_idx = 0
  /\ groups = <<>>
  /\ empty_dirs = {}

\* what does not depend on the tree the program is given
InitRest ==
  /\ dirs = DirsOf(files)
  /\ denied \in {D \in SUBSET Refusals(files, dirs) : Cardinality(D) <= MaxDenied}
  /\ status = "none"
  /\ pc = "idle"
  /\ dry_run = FALSE
  /\ in_place = FALSE
  /\ images_per_chapter = None
  /\ manga_directories = <<>>
  /\ manga_idx = 0
  /\ LocalsIdle
  /\ report = {}
  /\ startFiles = files
  /\ startDirs = dirs
  /\ prev = NoRun

\* a source that was never organized, on which the program is run MaxRuns
\* times at most
Init ==
  /\ files \in {fs \in SUBSET CandidateFiles : Cardinality(fs) <= MaxFiles}
  /\ runs = 0
  /\ InitRest

\* a source that earlier runs may have organized, on which the program is
\* run once more
InitAnyTree ==
  /\ files \in {fs \in SUBSET (CandidateFiles \cup LeftoverFiles) :
                  Cardinality(fs) <= MaxFiles}
  /\ runs = MaxRuns - 1
  /\ InitRest

\* --------------------------------------------- organize_mihon_image_folders
manga_dir == manga_directories[manga_idx]
manga_title == get_safe_folder_name(BaseName(manga_dir))
manga_backup_path == Join(<<Backup>>, manga_title)

\* a target that is the Collection's own directory in copy mode too
TargetPathInSource(dir, title) == dir

\* lines 170 and 181-182
TargetPath(dir, title) ==
  IF in_place THEN dir ELSE Join(<<Organized_Mihon>>, title)

Args == {TRUE, FALSE} \X {TRUE, FALSE} \X ({None} \cup (1..MaxGroupSize))

\* what every run sets when it begins: main() and lines 127-138
BeginRun(args) ==
  /\ pc = "idle"
  /\ runs < MaxRuns
  /\ runs' = runs + 1
  /\ dry_run' = args[1]
  /\ in_place' = args[2]
  /\ images_per_chapter' = args[3]
  /\ prev' = [dry_run |-> dry_run, in_place |-> in_place,
              images_per_chapter |-> images_per_chapter,
              status |-> status, report |-> report]
  /\ report' = {}
  /\ startFiles' = files
  /\ startDirs' = dirs
  /\ UNCHANGED << files, denied, image_files, target_path, backup_created, per_chapter,
                  total_chapters, chapter_num, img_idx, groups, empty_dirs >>

\* lines 141-146: no Collection, the run returns
StartEmpty ==
  \E args \in Args :
    /\ BeginRun(args)
    /\ MangaDirs = {}
    /\ status' = "complete"
    /\ pc' = "idle"
    /\ manga_directories' = <<>>
    /\ manga_idx' = 0
    /\ UNCHANGED dirs

\* lines 141-155: the Collections are listed, in the order the operating
\* system gives them, and copy mode creates <source>/_Backup
Start ==
  \E args \in Args :
    /\ BeginRun(args)
    /\ MangaDirs # {}
    /\ \E listing \in Perms(MangaDirs) : manga_directories' = listing
    /\ manga_idx' = 1
    /\ dirs' = IF ~args[2] /\ ~args[1] THEN MkdirP(dirs, <<Backup>>) ELSE dirs
    /\ status' = "running"
    /\ pc' = "for_manga"

\* the end of one turn of the loop of line 157
NextManga ==
  /\ manga_idx' = manga_idx + 1
  /\ pc' = "for_manga"
  /\ image_files' = <<>>
  /\ target_path' = <<>>
  /\ backup_created' = FALSE
  /\ per_chapter' = 0
  /\ total_chapters' = 0
  /\ chapter_num' = 0
  /\ img_idx' = 0
  /\ groups' = <<>>
  /\ empty_dirs' = {}

\* lines 216-224: the loop is over
Finish ==
  /\ pc = "for_manga"
  /\ manga_idx > Len(manga_directories)
  /\ status' = "complete"
  /\ pc' = "idle"
  /\ manga_directories' = <<>>
  /\ manga_idx' = 0
  /\ UNCHANGED << files, dirs, denied, runs, dry_run, in_place, images_per_chapter,
                  image_files, target_path, backup_created, per_chapter, total_chapters,
                  chapter_num, img_idx, groups, empty_dirs, report, startFiles,
                  startDirs, prev >>

\* an exception nothing catches: the process dies with the traceback
Abort(raised) ==
  /\ status' = raised
  /\ pc' = "idle"
  /\ manga_directories' = <<>>
  /\ manga_idx' = 0
  /\ image_files' = <<>>
  /\ target_path' = <<>>
  /\ backup_created' = FALSE
  /\ per_chapter' = 0
  /\ total_chapters' = 0
  /\ chapter_num' = 0
  /\ img_idx' = 0
  /\ groups' = <<>>
  /\ empty_dirs' = {}

\* lines 162-166: a Collection without images is skipped
SkipManga ==
  /\ pc = "for_manga"
  /\ manga_idx <= Len(manga_directories)
  /\ get_image_files(manga_dir) = {<<>>}
  /\ NextManga
  /\ UNCHANGED << files, dirs, denied, runs, status, dry_run, in_place,
                  images_per_chapter, manga_directories, report, startFiles,
                  startDirs, prev >>

\* a copy that does not descend: the files directly in src only
CopyTreeFilesFlat(src, dst) ==
  {[path |-> Rebase(src, dst, f.path), id |-> f.id] :
     f \in {g \in files : Parent(g.path) = src /\ ~Refused(g.path, "read")}}

\* shutil.copytree(src, dst): the files it writes; a file it cannot read
\* is left out, the others are copied all the same
CopyTreeFiles(src, dst) ==
  {[path |-> Rebase(src, dst, f.path), id |-> f.id] :
     f \in {g \in files : Under(src, g.path) /\ ~Refused(g.path, "read")}}

\* shutil.copytree(src, dst): the directories it makes
CopyTreeDirs(src, dst) ==
  MkdirP({}, dst) \cup {Rebase(src, dst, d) : d \in {e \in dirs : Under(src, e)}}

\* shutil.copytree raises at its end when it could not copy some file
CopyTreeRaises(src) == \E f \in files : Under(src, f.path) /\ Refused(f.path, "read")

\* lines 168-178, in-place mode: the target is the Collection's directory,
\* backed up unless its backup exists or the run is a dry run
BeginInPlace ==
  /\ pc = "for_manga"
  /\ manga_idx <= Len(manga_directories)
  /\ in_place
  /\ \E images \in get_image_files(manga_dir) :
       /\ images # <<>>
       /\ image_files' = images
  /\ target_path' = TargetPath(manga_dir, manga_title)
  /\ IF ~dry_run /\ ~Exists(manga_backup_path)
     THEN /\ ~CopyTreeRaises(manga_dir)
          /\ files' = files \cup CopyTreeFiles(manga_dir, manga_backup_path)
          /\ dirs' = dirs \cup CopyTreeDirs(manga_dir, manga_backup_path)
          /\ backup_created' = TRUE
     ELSE /\ UNCHANGED << files, dirs >>
          /\ backup_created' = FALSE
  /\ pc' = "organize"
  /\ UNCHANGED << denied, runs, status, dry_run, in_place, images_per_chapter,
                  manga_directories, manga_idx, per_chapter, total_chapters,
                  chapter_num, img_idx, groups, empty_dirs, report, startFiles,
                  startDirs, prev >>

\* line 177 raises: the backup is left partial and the run dies
BackupFails ==
  /\ pc = "for_manga"
  /\ manga_idx <= Len(manga_directories)
  /\ in_place
  /\ get_image_files(manga_dir) # {<<>>}
  /\ ~dry_run /\ ~Exists(manga_backup_path)
  /\ CopyTreeRaises(manga_dir)
  /\ files' = files \cup CopyTreeFiles(manga_dir, manga_backup_path)
  /\ dirs' = dirs \cup CopyTreeDirs(manga_dir, manga_backup_path)
  /\ Abort("copytree raised")
  /\ UNCHANGED << denied, runs, dry_run, in_place, images_per_chapter, report,
                  startFiles, startDirs, prev >>

\* lines 179-186, copy mode: the target is Organized_Mihon/<title>
BeginCopy ==
  /\ pc = "for_manga"
  /\ manga_idx <= Len(manga_directories)
  /\ ~in_place
  /\ \E images \in get_image_files(manga_dir) :
       /\ images # <<>>
       /\ image_files' = images
  /\ target_path' = TargetPath(manga_dir, manga_title)
  /\ IF dry_run
     THEN /\ pc' = "organize"
          /\ UNCHANGED << dirs, img_idx >>
     ELSE /\ dirs' = MkdirP(MkdirP(dirs, <<Organized_Mihon>>),
                            TargetPath(manga_dir, manga_title))
          /\ img_idx' = 1
          /\ pc' = "copy"
  /\ UNCHANGED << files, denied, runs, status, dry_run, in_place, images_per_chapter,
                  manga_directories, manga_idx, backup_created, per_chapter,
                  total_chapters, chapter_num, groups, empty_dirs, report,
                  startFiles, startDirs, prev >>

\* lines 189-202: one image is copied into the target, under a free name
CopyImage ==
  /\ pc = "copy"
  /\ img_idx <= Len(image_files)
  /\ ~Refused(image_files[img_idx], "read")
  /\ files' = CopyFile(files, image_files[img_idx],
                       ResolveDest(target_path, BaseName(image_files[img_idx])))
  /\ img_idx' = img_idx + 1
  /\ UNCHANGED << dirs, denied, runs, status, pc, dry_run, in_place,
                  images_per_chapter, manga_directories, manga_idx, image_files,
                  target_path, backup_created, per_chapter, total_chapters,
                  chapter_num, groups, empty_dirs, report, startFiles, startDirs, prev >>

\* line 202 raises, and it is inside no try: the run dies
CopyFails ==
  /\ pc = "copy"
  /\ img_idx <= Len(image_files)
  /\ Refused(image_files[img_idx], "read")
  /\ Abort("copy2 raised")
  /\ UNCHANGED << files, dirs, denied, runs, dry_run, in_place, images_per_chapter,
                  report, startFiles, startDirs, prev >>

\* line 205: the images of the target are listed again
CopyDone ==
  /\ pc = "copy"
  /\ img_idx > Len(image_files)
  /\ \E images \in get_image_files(target_path) : image_files' = images
  /\ img_idx' = 0
  /\ pc' = "organize"
  /\ UNCHANGED << files, dirs, denied, runs, status, dry_run, in_place,
                  images_per_chapter, manga_directories, manga_idx, target_path,
                  backup_created, per_chapter, total_chapters, chapter_num, groups,
                  empty_dirs, report, startFiles, startDirs, prev >>

\* -------------------------------------------- organize_images_into_chapters
chapter_path == Join(target_path, format_chapter_name(chapter_num))

\* lines 56-67: the number of chapters
Organize ==
  /\ pc = "organize"
  /\ IF images_per_chapter = None
     THEN /\ total_chapters' = 1
          /\ per_chapter' = Len(image_files)
     ELSE /\ total_chapters' = TotalChapters(Len(image_files), images_per_chapter)
          /\ per_chapter' = images_per_chapter
  /\ chapter_num' = 1
  /\ groups' = <<>>
  /\ pc' = "chapter"
  /\ UNCHANGED << files, dirs, denied, runs, status, dry_run, in_place,
                  images_per_chapter, manga_directories, manga_idx, image_files,
                  target_path, backup_created, img_idx, empty_dirs, report,
                  startFiles, startDirs, prev >>

\* a chapter directory that is made in a dry run too
ChapterDirsAlways(path) == MkdirP(dirs, path)

\* lines 79-81: the chapter's directory, unless the run is a dry run
ChapterDirs(path) == IF dry_run THEN dirs ELSE MkdirP(dirs, path)

\* lines 69-81: one chapter is begun: its slice, its line of the report,
\* and its directory
ChapterBegin ==
  /\ pc = "chapter"
  /\ chapter_num <= total_chapters
  /\ LET start_index == StartIndex(chapter_num, per_chapter)
         end_index == EndIndex(start_index, per_chapter, Len(image_files))
     IN  /\ groups' = Append(groups, [name |-> format_chapter_name(chapter_num),
                                      first |-> start_index, last |-> end_index])
         /\ dirs' = ChapterDirs(chapter_path)
         /\ IF dry_run
            THEN /\ chapter_num' = chapter_num + 1
                 /\ UNCHANGED << pc, img_idx >>
            ELSE /\ img_idx' = start_index + 1
                 /\ pc' = "move"
                 /\ UNCHANGED chapter_num
  /\ UNCHANGED << files, denied, runs, status, dry_run, in_place, images_per_chapter,
                  manga_directories, manga_idx, image_files, target_path,
                  backup_created, per_chapter, total_chapters, empty_dirs, report,
                  startFiles, startDirs, prev >>

MoveUnchanged ==
  UNCHANGED << dirs, denied, runs, status, pc, dry_run, in_place, images_per_chapter,
               manga_directories, manga_idx, image_files, target_path, backup_created,
               per_chapter, total_chapters, chapter_num, groups, empty_dirs, report,
               startFiles, startDirs, prev >>

\* shutil.move raises: the operating system refuses, or the file is gone
MoveRaises(image) == Refused(image, "write") \/ image \notin Paths(files)

\* lines 84-98: one image is moved into the chapter, under a free name
MoveImage ==
  /\ pc = "move"
  /\ img_idx <= groups[Len(groups)].last
  /\ ~MoveRaises(image_files[img_idx])
  /\ files' = MoveFile(files, image_files[img_idx],
                       ResolveDest(chapter_path, BaseName(image_files[img_idx])))
  /\ img_idx' = img_idx + 1
  /\ MoveUnchanged

\* lines 99-100: the move raises, the exception is caught and printed
MoveFails ==
  /\ pc = "move"
  /\ img_idx <= groups[Len(groups)].last
  /\ MoveRaises(image_files[img_idx])
  /\ img_idx' = img_idx + 1
  /\ UNCHANGED files
  /\ MoveUnchanged

\* the loop of line 84 is over: the next chapter
ChapterEnd ==
  /\ pc = "move"
  /\ img_idx > groups[Len(groups)].last
  /\ chapter_num' = chapter_num + 1
  /\ img_idx' = 0
  /\ pc' = "chapter"
  /\ UNCHANGED << files, dirs, denied, runs, status, dry_run, in_place,
                  images_per_chapter, manga_directories, manga_idx, image_files,
                  target_path, backup_created, per_chapter, total_chapters, groups,
                  empty_dirs, report, startFiles, startDirs, prev >>

\* what lines 62-67 and 77 print for one Collection
Printed ==
  [dir |-> manga_dir, images |-> Len(image_files),
   chapters |-> [i \in 1..Len(groups) |->
                   [name |-> groups[i].name,
                    images |-> groups[i].last - groups[i].first]]]

\* the loop of line 69 is over: the function returns, and lines 211-214
\* prune the Collection in place or go to the next Collection
OrganizeReturn ==
  /\ pc = "chapter"
  /\ chapter_num > total_chapters
  /\ manga_idx \in 1..Len(manga_directories)
  /\ report' = report \cup {Printed}
  /\ IF ~dry_run /\ in_place
     THEN /\ pc' = "scan"
          /\ UNCHANGED << manga_idx, image_files, target_path, backup_created,
                          per_chapter, total_chapters, chapter_num, img_idx, groups,
                          empty_dirs >>
     ELSE NextManga
  /\ UNCHANGED << files, dirs, denied, runs, status, dry_run, in_place,
                  images_per_chapter, manga_directories, startFiles, startDirs, prev >>

\* ------------------------------------------------- remove_empty_directories
\* lines 108-111: the directories under path that hold nothing
EmptyDirs(path) ==
  {d \in dirs : /\ Under(path, d)
                /\ ~\E e \in dirs \cup Paths(files) : Parent(e) = d}

\* lines 108-115: a scan that finds empty directories
PruneScan ==
  /\ pc = "scan"
  /\ EmptyDirs(target_path) # {}
  /\ empty_dirs' = EmptyDirs(target_path)
  /\ pc' = "rmdir"
  /\ UNCHANGED << files, dirs, denied, runs, status, dry_run, in_place,
                  images_per_chapter, manga_directories, manga_idx, image_files,
                  target_path, backup_created, per_chapter, total_chapters,
                  chapter_num, img_idx, groups, report, startFiles, startDirs, prev >>

\* lines 116-121: every directory of the scan is removed, but those whose
\* removal raises, which are printed and left
PruneRemove ==
  /\ pc = "rmdir"
  /\ dirs' = dirs \ {d \in empty_dirs : ~Refused(d, "write")}
  /\ pc' = "scan"
  /\ UNCHANGED << files, denied, runs, status, dry_run, in_place, images_per_chapter,
                  manga_directories, manga_idx, image_files, target_path,
                  backup_created, per_chapter, total_chapters, chapter_num, img_idx,
                  groups, empty_dirs, report, startFiles, startDirs, prev >>

\* lines 113-114: a scan that finds none ends the pass
PruneDone ==
  /\ pc = "scan"
  /\ EmptyDirs(target_path) = {}
  /\ NextManga
  /\ UNCHANGED << files, dirs, denied, runs, status, dry_run, in_place,
                  images_per_chapter, manga_directories, report, startFiles,
                  startDirs, prev >>

\* ------------------------------------------------------------ specifications
Next ==
  \/ StartEmpty
  \/ Start
  \/ SkipManga
  \/ BeginInPlace
  \/ BackupFails
  \/ BeginCopy
  \/ CopyImage
  \/ CopyFails
  \/ CopyDone
  \/ Organize
  \/ ChapterBegin
  \/ MoveImage
  \/ MoveFails
  \/ ChapterEnd
  \/ OrganizeReturn
  \/ PruneScan
  \/ PruneRemove
  \/ PruneDone
  \/ Finish

Spec == Init /\ [][Next]_vars

SpecAnyTree == InitAnyTree /\ [][Next]_vars

\* ------------------------------------------------- the chapter loop on its own
\* organize_images_into_chapters on n items with a group size, as a dry
\* run: the function then only computes and prints
InitChapters ==
  /\ \E n \in 0..MaxItems :
       /\ image_files = [i \in 1..n |-> <<T1, ToDigits(i) \o Jpg>>]
       /\ files = {[path |-> <<T1, ToDigits(i) \o Jpg>>, id |-> i] : i \in 1..n}
  /\ dirs = {<<T1>>}
  /\ denied = {}
  /\ runs = 1
  /\ status = "running"
  /\ pc = "organize"
  /\ dry_run = TRUE
  /\ in_place = TRUE
  /\ images_per_chapter \in 1..MaxChunk
  /\ manga_directories = << <<T1>> >>
  /\ manga_idx = 1
  /\ target_path = <<T1>>
  /\ backup_created = FALSE
  /\ per_chapter = 0
  /\ total_chapters = 0
  /\ chapter_num = 0
  /\ img_idx = 0
  /\ groups = <<>>
  /\ empty_dirs = {}
  /\ report = {}
  /\ startFiles = files
  /\ startDirs = dirs
  /\ prev = NoRun

NextChapters ==
  \/ Organize
  \/ ChapterBegin
  \/ OrganizeReturn

SpecChapters == InitChapters /\ [][NextChapters]_vars

\* ------------------------------------------------------ the pruning on its own
PruneCandidateDirs ==
  { <<T1, <<"x">>>>, <<T1, <<"x">>, <<"w">>>>, <<T1, <<"x">>, <<"w">>, <<"v">>>>,
    <<T1, <<"y">>>>, <<T1, <<"y">>, <<"w">>>>, <<T1, <<"z">>>> }

PruneCandidateFiles ==
  { [path |-> <<T1, <<"x">>, <<"n", ".", "t", "x", "t">>>>, id |-> 5],
    [path |-> <<T1, <<"y">>, <<"w">>, <<"a">> \o Jpg>>, id |-> 1] }

\* remove_empty_directories(<source>/t:) on a tree of directories, some of
\* which the operating system refuses to remove
InitPrune ==
  /\ \E ds \in SUBSET PruneCandidateDirs :
       /\ \A d \in ds : Len(d) > 2 => Parent(d) \in ds
       /\ dirs = {<<T1>>} \cup ds
  /\ files \in {fs \in SUBSET PruneCandidateFiles : \A f \in fs : Parent(f.path) \in dirs}
  /\ denied \in {D \in SUBSET ((dirs \ {<<T1>>}) \X {"write"}) : Cardinality(D) <= MaxDenied}
  /\ runs = 1
  /\ status = "running"
  /\ pc = "scan"
  /\ dry_run = FALSE
  /\ in_place = TRUE
  /\ images_per_chapter = None
  /\ manga_directories = << <<T1>> >>
  /\ manga_idx = 1
  /\ image_files = <<>>
  /\ target_path = <<T1>>
  /\ backup_created = FALSE
  /\ per_chapter = 0
  /\ total_chapters = 0
  /\ chapter_num = 0
  /\ img_idx = 0
  /\ groups = <<>>
  /\ empty_dirs = {}
  /\ report = {}
  /\ startFiles = files
  /\ startDirs = dirs
  /\ prev = NoRun

NextPrune ==
  \/ PruneScan
  \/ PruneRemove
  \/ PruneDone

\* the interpreter runs the loop on: a step that can be taken is taken
FairPrune == InitPrune /\ [][NextPrune]_vars /\ WF_vars(NextPrune)

\* ===================================================================== claims
Reserved == {Organized_Mihon, Backup}

\* the chapter loop has made its last turn and has not returned yet
LoopOver == pc = "chapter" /\ chapter_num > total_chapters

\* C1: on N >= 0 items with a group size g >= 1 the chapter loop makes
\* ceil(N/g) groups, numbered from 1: group k is [(k-1)*g, min(k*g, N)),
\* each group begins where the one before ends, the first at 0 and the
\* last ends at N, and every group but the last holds g items.
C1_ChapterLoopPartitions ==
  LET N == Len(image_files)
      g == images_per_chapter
      n == Len(groups)
  IN  /\ \A k \in 1..n :
           /\ groups[k].name = format_chapter_name(k)
           /\ groups[k].first = (k - 1) * g
           /\ groups[k].last = IF k * g < N THEN k * g ELSE N
           /\ groups[k].first < groups[k].last
           /\ k < n => groups[k].last - groups[k].first = g
           /\ k < n => groups[k + 1].first = groups[k].last
           /\ k = 1 => groups[k].first = 0
      /\ LoopOver =>
           /\ n * g >= N
           /\ (n - 1) * g < N \/ (n = 0 /\ N = 0)
           /\ n > 0 => groups[n].last = N
           /\ N = 0 => n = 0

\* C1, witness: five items in groups of two: three groups, the last of one
C1_Witness ==
  /\ LoopOver
  /\ Len(image_files) = 5
  /\ images_per_chapter = 2
  /\ Len(groups) = 3
  /\ groups[3].last - groups[3].first = 1

\* C2: during and after a dry run, in place or in copy mode, the
\* filesystem is the one the run began with: no directory made or
\* removed, no file copied, moved or renamed.
C2_DryRunMutatesNothing ==
  (status # "none" /\ dry_run) => (files = startFiles /\ dirs = startDirs)

\* C2, witness: a dry run that ended after it printed two chapters at least
C2_Witness ==
  /\ dry_run
  /\ status = "complete"
  /\ \E r \in report : Len(r.chapters) >= 2
  /\ files = startFiles

\* the run in progress is a real run that repeats, from the same
\* filesystem, the dry run that ended before it
RealAfterDry ==
  /\ ~dry_run
  /\ prev.dry_run
  /\ prev.status = "complete"
  /\ prev.in_place = in_place
  /\ prev.images_per_chapter = images_per_chapter

\* C3: a dry run and the real run that follows it from the same filesystem,
\* with the same mode and group size, print for every Collection the same
\* number of images and the same chapters with the same numbers of images.
C3_DryRunPrintsTheRealPlan ==
  (RealAfterDry /\ status = "complete") => report = prev.report

\* the image in progress, in the copy loop or in the move loop
image == image_files[img_idx]

CopyRaises == pc = "copy" /\ img_idx <= Len(image_files) /\ Refused(image, "read")

MoveRaisesNow ==
  pc = "move" /\ img_idx <= groups[Len(groups)].last /\ MoveRaises(image)

\* C4: when the copy or the move of one image raises, the image stays
\* where it was and the run goes on with the next image.
C4_ItemFailureIsIsolated ==
  [][(CopyRaises \/ MoveRaisesNow) =>
       /\ files' = files
       /\ status' = "running"
       /\ pc' = pc
       /\ img_idx' = img_idx + 1]_vars

\* the backup of the Collection in progress is the copy of its tree as the
\* run found it
BackupHoldsTree ==
  /\ manga_backup_path \in dirs
  /\ {f \in files : Under(manga_backup_path, f.path)}
       = {[path |-> Rebase(manga_dir, manga_backup_path, f.path), id |-> f.id] :
            f \in {g \in startFiles : Under(manga_dir, g.path)}}
  /\ {d \in dirs : Under(manga_backup_path, d)}
       = {Rebase(manga_dir, manga_backup_path, d) :
            d \in {e \in startDirs : Under(manga_dir, e)}}

\* a step that moves an image of a Collection organized in place
MovesInPlace == pc = "move" /\ in_place /\ files' # files

InPlaceAgain ==
  /\ in_place /\ ~dry_run
  /\ prev.in_place /\ ~prev.dry_run
  /\ prev.status = "complete"
  /\ prev.images_per_chapter = images_per_chapter

IsChapterName(name) == Len(name) > Len(ChapterWord) /\ SubSeq(name, 1, Len(ChapterWord)) = ChapterWord

\* the files in the Chapter NNN directories of the Collections
ChapterFiles(fs) ==
  {f \in fs : /\ f.path[1] \notin Reserved
              /\ Len(f.path) = 3
              /\ IsChapterName(f.path[2])}

\* C6: a second real run in place, with the same group size, leaves every
\* Chapter NNN directory with the files and the names the first run gave it.
C6_InPlaceTwiceIsIdempotent ==
  (InPlaceAgain /\ status = "complete") => ChapterFiles(files) = ChapterFiles(startFiles)

\* C7: during and after a real run in copy mode the tree of every
\* Collection is as the run found it, and so is everything under
\* <source>/_Backup: what changes is <source>/_Backup itself and what is
\* under <source>/Organized_Mihon.
C7_CopyModeLeavesCollections ==
  (status # "none" /\ ~in_place /\ ~dry_run) =>
     /\ {f \in files : f.path[1] # Organized_Mihon}
          = {f \in startFiles : f.path[1] # Organized_Mihon}
     /\ {d \in dirs : d[1] # Organized_Mihon} \ {<<Backup>>}
          = {d \in startDirs : d[1] # Organized_Mihon} \ {<<Backup>>}

\* C7, witness: a real run in copy mode has ended with an image in a chapter
\* of Organized_Mihon
C7_Witness ==
  /\ ~in_place /\ ~dry_run
  /\ status = "complete"
  /\ \E f \in files : /\ f.path[1] = Organized_Mihon
                      /\ Len(f.path) = 4
                      /\ IsChapterName(f.path[3])
                      /\ f \notin startFiles

\* the k-th path the resolution tries for a name: the name itself, then
\* <stem>_1<ext>, <stem>_2<ext>, ...
Candidate(name, k) ==
  IF k = 0 THEN name ELSE Stem(name) \o <<"_">> \o ToDigits(k) \o Suffix(name)

\* where the image in progress is copied or moved to
DestDir == IF pc = "copy" THEN target_path ELSE chapter_path

\* a copy or a move writes one new path, the first of the candidates that
\* did not exist, and replaces no file
WritesFirstFree ==
  (pc \in {"copy", "move"} /\ files' # files) =>
     /\ \E k \in 0..Cardinality(files) :
          /\ Paths(files') \ Paths(files) = {Join(DestDir, Candidate(BaseName(image), k))}
          /\ \A j \in 0..(k - 1) : Exists(Join(DestDir, Candidate(BaseName(image), j)))
          /\ ~Exists(Join(DestDir, Candidate(BaseName(image), k)))
     /\ Cardinality(files') = Cardinality(files) + (IF pc = "copy" THEN 1 ELSE 0)
     /\ {f.id : f \in files'} = {f.id : f \in files}

\* the copy loop of the first Collection, into a target that held nothing,
\* of images that all have one name
CopiesOneName ==
  /\ pc = "copy"
  /\ manga_idx = 1
  /\ ~\E p \in Paths(startFiles) : Under(target_path, p)
  /\ \A i \in 1..Len(image_files) : BaseName(image_files[i]) = BaseName(image_files[1])

\* the i-th request got the (i-1)-th candidate
InRequestOrder ==
  CopiesOneName =>
     {f \in files : Parent(f.path) = target_path}
       = {[path |-> Join(target_path, Candidate(BaseName(image_files[1]), i - 1)),
           id |-> IdOf(startFiles, image_files[i])] : i \in 1..(img_idx - 1)}

\* C8: the resolution gives the first of <dir>/<name>, <dir>/<stem>_1<ext>,
\* <dir>/<stem>_2<ext>, ... that does not exist, so that no copy and no
\* move replaces a file; requests for one name against an empty directory
\* get a.jpg, a_1.jpg, a_2.jpg, ... in the order of the requests.
C8_ResolutionGivesFirstFree == [][WritesFirstFree]_vars /\ []InRequestOrder

\* C8, witness: three images named a.jpg have been copied into a target
\* that held nothing, as a.jpg, a_1.jpg and a_2.jpg
C8_Witness ==
  /\ CopiesOneName
  /\ img_idx = 4
  /\ {BaseName(f.path) : f \in {g \in files : Parent(g.path) = target_path}}
       = { <<"a">> \o Jpg, <<"a", "_", "1">> \o Jpg, <<"a", "_", "2">> \o Jpg }

\* the order of paths: part by part, a proper prefix first
PathLess(p, q) ==
  \/ Under(p, q)
  \/ \E i \in 1..Len(p) :
        /\ i <= Len(q)
        /\ SubSeq(p, 1, i - 1) = SubSeq(q, 1, i - 1)
        /\ StrLess(p[i], q[i])

\* C9: the list handed to the chapter loop is sorted by base name, equal
\* names by full path, whatever the order of the walk.
C9_SortedByNameThenPath ==
  pc = "organize" =>
     \A i, j \in 1..Len(image_files) :
        i < j => \/ StrLess(BaseName(image_files[i]), BaseName(image_files[j]))
                 \/ /\ BaseName(image_files[i]) = BaseName(image_files[j])
                    /\ PathLess(image_files[i], image_files[j])

\* C10: the pruning pass ends, also when the removal of a directory fails.
C10_PruningTerminates == <>(pc # "scan" /\ pc # "rmdir")

====
